---- MODULE Spec2Model ----
(***************************************************************************)
(* A model of ql/Volatilities/swaptionvolcube.cpp: the layered tensor      *)
(* SwaptionVolatilityCubeBySabr::Cube with its mutators, and the two cube  *)
(* variants built on it.  Reals are modelled by integers; only their order *)
(* and equality matter to the grid maintenance.  Indices keep the source's *)
(* 0-based values; a TLA+ sequence is read at index + 1.                   *)
(***************************************************************************)
EXTENDS Integers, Sequences, FiniteSets, TLC

\* Number of mutator calls made on a Cube after its construction.
MaxOps == 2
\* Grid values (expiry times, time lengths) a grid line is drawn from.
GridValues == {1, 2, 3}
\* Numbers of layers of a constructed Cube.
LayerCounts == {1, 2}

VARIABLES
    cube,   \* the Cube object: expiries_, lengths_, nLayers_, extrapolation_, points_, interpolators_
    last,   \* the last call made on the Cube: its name, its arguments, its outcome and the Cube before it
    nOps,   \* number of mutator calls made so far
    inp,    \* the arguments of a cube variant's constructor
    pc,     \* the statement the constructor has reached
    obj,    \* the members of the SwaptionVolatilityCube(BySabr) under construction
    cnt,    \* what the constructor has done so far: spread elements read, ATM reference calls, SABR fits
    err,    \* the message of the error the constructor raised, "" if none
    loc,    \* the locals of the member function the constructor is in (sabrCalibration, fillVolatilityCube)
    callers \* the frame of each caller querying the constructed object

cubeVars == <<cube, last, nOps>>
buildVars == <<inp, pc, obj, cnt, err, loc>>
vars == <<cube, last, nOps, inp, pc, obj, cnt, err, loc, callers>>

(***************************************************************************)
(* Matrix and std:: helpers                                                *)
(***************************************************************************)
Matrix(r, c, v) == [i \in 1..r |-> [j \in 1..c |-> v]]
rows(m) == Len(m)
columns(m) == IF Len(m) = 0 THEN 0 ELSE Len(m[1])

\* A matrix with pairwise distinct, non-zero entries.
TaggedMatrix(r, c) == [i \in 1..r |-> [j \in 1..c |-> (i - 1) * c + j]]

RECURSIVE lowerBoundFrom(_, _, _, _)
lowerBoundFrom(s, first, len, val) ==
    IF len <= 0 THEN first
    ELSE LET half == len \div 2
             middle == first + half
         IN  IF s[middle + 1] < val
             THEN lowerBoundFrom(s, middle + 1, len - half - 1, val)
             ELSE lowerBoundFrom(s, first, half, val)

\* std::lower_bound(s.begin(), s.end(), val) - s.begin()
lower_bound(s, val) == lowerBoundFrom(s, 0, Len(s), val)

\* std::binary_search(s.begin(), s.end(), val)
binary_search(s, val) ==
    LET i == lower_bound(s, val)
    IN  i # Len(s) /\ ~(val < s[i + 1])

\* A grid line inserted one position too far.
insertAfter(s, i, v) == SubSeq(s, 1, i + 1) \o <<v>> \o SubSeq(s, i + 2, Len(s))

\* std::vector::insert(s.begin() + i, v)
insert(s, i, v) == SubSeq(s, 1, i) \o <<v>> \o SubSeq(s, i + 1, Len(s))

StrictlyIncreasing(s) == \A a \in 1..(Len(s) - 1) : s[a] < s[a + 1]

(***************************************************************************)
(* Outcomes of a call: it returns ("ok"), it raises a QuantLib error       *)
(* ("error", the object as the failed statement left it), or it reads or   *)
(* writes outside an array ("undefined").                                  *)
(***************************************************************************)
Ok(c) == [outcome |-> "ok", msg |-> "", cube |-> c]
Err(c, m) == [outcome |-> "error", msg |-> m, cube |-> c]
Undefined(c) == [outcome |-> "undefined", msg |-> "", cube |-> c]

(***************************************************************************)
(* SwaptionVolatilityCubeBySabr::Cube                                      *)
(***************************************************************************)
BilinearInterpolation(x, y, z) ==
    [x |-> x, y |-> y, z |-> z, extrapolation |-> FALSE]

enableExtrapolation(ip) == [ip EXCEPT !.extrapolation = TRUE]

setPoints(c, x) ==
    IF Len(x) # c.nLayers
    THEN Err(c, "Cube::setPoints: incompatible number of layers ")
    ELSE IF Len(x) = 0 THEN Undefined(c)
    ELSE IF rows(x[1]) # Len(c.expiries)
    THEN Err(c, "Cube::setPoints: incompatible size 1")
    ELSE IF columns(x[1]) # Len(c.lengths)
    THEN Err(c, "Cube::setPoints: incompatible size 2")
    ELSE Ok([c EXCEPT !.points = x])

setLayerBeforeChecks(c, i, x) ==
    IF ~(i < c.nLayers)
    THEN Err(c, "Cube::setLayer: incompatible number of layer ")
    ELSE IF rows(x) # Len(c.expiries)
    THEN Err([c EXCEPT !.points[i + 1] = x], "Cube::setLayer: incompatible size 1")
    ELSE IF columns(x) # Len(c.lengths)
    THEN Err([c EXCEPT !.points[i + 1] = x], "Cube::setLayer: incompatible size 2")
    ELSE Ok([c EXCEPT !.points[i + 1] = x])

setLayer(c, i, x) ==
    IF ~(i < c.nLayers)
    THEN Err(c, "Cube::setLayer: incompatible number of layer ")
    ELSE IF rows(x) # Len(c.expiries)
    THEN Err(c, "Cube::setLayer: incompatible size 1")
    ELSE IF columns(x) # Len(c.lengths)
    THEN Err(c, "Cube::setLayer: incompatible size 2")
    ELSE Ok([c EXCEPT !.points[i + 1] = x])

setElement(c, IndexOfLayer, IndexOfRow, IndexOfColumn, x) ==
    IF ~(IndexOfLayer < c.nLayers)
    THEN Err(c, "Cube::setElement: incompatible IndexOfLayer ")
    ELSE IF ~(IndexOfRow < Len(c.expiries))
    THEN Err(c, "Cube::setElement: incompatible IndexOfRow")
    ELSE IF ~(IndexOfColumn < Len(c.lengths))
    THEN Err(c, "Cube::setElement: incompatible IndexOfColumn")
    ELSE IF \/ ~(IndexOfRow < rows(c.points[IndexOfLayer + 1]))
            \/ ~(IndexOfColumn < columns(c.points[IndexOfLayer + 1]))
    THEN Undefined(c)
    ELSE Ok([c EXCEPT !.points[IndexOfLayer + 1][IndexOfRow + 1][IndexOfColumn + 1] = x])

updateInterpolators(c) ==
    IF Len(c.interpolators) < c.nLayers THEN Undefined(c)
    ELSE Ok([c EXCEPT !.interpolators =
                [k \in 1..Len(c.interpolators) |->
                    IF k <= c.nLayers
                    THEN enableExtrapolation(
                             BilinearInterpolation(c.expiries, c.lengths, c.points[k]))
                    ELSE c.interpolators[k]]])

\* A Cube that no constructor has filled yet.
NullCube == [expiries |-> <<>>, lengths |-> <<>>, nLayers |-> 0,
             extrapolation |-> FALSE, points |-> <<>>, interpolators |-> <<>>]

\* Cube::Cube(expiries, lengths, nLayers, extrapolation)
CubeCtor(expiries, lengths, nLayers, extrapolation) ==
    LET c0 == [expiries |-> expiries, lengths |-> lengths, nLayers |-> nLayers,
               extrapolation |-> extrapolation, points |-> <<>>,
               interpolators |-> <<>>]
        points == [k \in 1..nLayers |-> Matrix(Len(expiries), Len(lengths), 0)]
    IN  IF ~(Len(expiries) > 1) THEN Err(c0, "Cube::Cube(...): wrong input expiries")
        ELSE IF ~(Len(lengths) > 1) THEN Err(c0, "Cube::Cube(...): wrong input lengths")
        ELSE LET r1 == setPoints(c0, points)
             IN  IF r1.outcome # "ok" THEN r1
                 ELSE setPoints(
                        [r1.cube EXCEPT !.interpolators =
                            [k \in 1..nLayers |->
                                enableExtrapolation(BilinearInterpolation(
                                    expiries, lengths, r1.cube.points[k]))]],
                        points)

\* The shift applied from the row after the insertion point only.
indexOfNewStrict(u, i, expand) == IF u > i /\ expand THEN u + 1 ELSE u

\* The row (column) of the new layer that expandLayers copies row (column) u
\* of the old one to: indexOfRow = u, or u + 1 when u >= i and the axis expands.
indexOfNew(u, i, expand) == IF u >= i /\ expand THEN u + 1 ELSE u

\* The layers enlarged without the copy of the old elements: every cell of
\* the new layers is the zero fill.
expandLayersWithoutCopy(c, i, expandExpiries, j, expandLengths) ==
    IF ~(i < Len(c.expiries))
    THEN Err(c, "Cube::expandLayers: incompatible size 1")
    ELSE IF ~(j < Len(c.lengths))
    THEN Err(c, "Cube::expandLayers: incompatible size 2")
    ELSE LET exp2 == IF expandExpiries THEN insert(c.expiries, i, 0) ELSE c.expiries
             len2 == IF expandLengths THEN insert(c.lengths, j, 0) ELSE c.lengths
         IN  setPoints([c EXCEPT !.expiries = exp2, !.lengths = len2],
                       [k \in 1..c.nLayers |-> Matrix(Len(exp2), Len(len2), 0)])

expandLayers(c, i, expandExpiries, j, expandLengths) ==
    IF ~(i < Len(c.expiries))
    THEN Err(c, "Cube::expandLayers: incompatible size 1")
    ELSE IF ~(j < Len(c.lengths))
    THEN Err(c, "Cube::expandLayers: incompatible size 2")
    ELSE LET exp2 == IF expandExpiries THEN insert(c.expiries, i, 0) ELSE c.expiries
             len2 == IF expandLengths THEN insert(c.lengths, j, 0) ELSE c.lengths
             c2 == [c EXCEPT !.expiries = exp2, !.lengths = len2]
             outOfBounds ==
                 \E k \in 1..c.nLayers :
                     \/ \E u \in 0..(rows(c.points[k]) - 1) :
                            indexOfNew(u, i, expandExpiries) >= Len(exp2)
                     \/ /\ rows(c.points[k]) > 0
                        /\ \E v \in 0..(columns(c.points[k]) - 1) :
                            indexOfNew(v, j, expandLengths) >= Len(len2)
             newPoints ==
                 [k \in 1..c.nLayers |->
                     [r \in 1..Len(exp2) |->
                         [q \in 1..Len(len2) |->
                             LET from == { <<u, v>> \in (0..(rows(c.points[k]) - 1))
                                                 \X (0..(columns(c.points[k]) - 1)) :
                                             /\ indexOfNew(u, i, expandExpiries) = r - 1
                                             /\ indexOfNew(v, j, expandLengths) = q - 1 }
                             IN  IF from = {} THEN 0
                                 ELSE LET uv == CHOOSE p \in from : TRUE
                                      IN  c.points[k][uv[1] + 1][uv[2] + 1]]]]
         IN  IF outOfBounds THEN Undefined(c2)
             ELSE setPoints(c2, newPoints)

setPoint(c, expiry, length, point) ==
    LET expandExpiries == ~binary_search(c.expiries, expiry)
        expandLengths == ~binary_search(c.lengths, length)
        expiriesIndex == lower_bound(c.expiries, expiry)
        lengthsIndex == lower_bound(c.lengths, length)
        r1 == IF expandExpiries \/ expandLengths
              THEN expandLayers(c, expiriesIndex, expandExpiries,
                                lengthsIndex, expandLengths)
              ELSE Ok(c)
        d == r1.cube
    IN  IF r1.outcome # "ok" THEN r1
        ELSE IF \/ Len(point) < d.nLayers
                \/ \E k \in 1..d.nLayers :
                       \/ ~(expiriesIndex < rows(d.points[k]))
                       \/ ~(lengthsIndex < columns(d.points[k]))
                \/ ~(expiriesIndex < Len(d.expiries))
                \/ ~(lengthsIndex < Len(d.lengths))
        THEN Undefined(d)
        ELSE Ok([d EXCEPT
                   !.points = [k \in 1..d.nLayers |->
                                  [d.points[k] EXCEPT
                                      ![expiriesIndex + 1][lengthsIndex + 1] = point[k]]],
                   !.expiries[expiriesIndex + 1] = expiry,
                   !.lengths[lengthsIndex + 1] = length])

\* Interpolation::locate(x) on the nodes xs
locate(xs, x) ==
    IF x < xs[1] THEN 0
    ELSE IF x > xs[Len(xs)] THEN Len(xs) - 2
    ELSE Cardinality({ a \in 1..(Len(xs) - 1) : xs[a] <= x }) - 1

\* BilinearInterpolation::operator()(x, y): zData is read as z[j][i], its
\* rows along y and its columns along x.
BilinearValue(ip, x, y) ==
    IF Len(ip.x) < 2 \/ Len(ip.y) < 2 THEN [outcome |-> "undefined", value |-> 0]
    ELSE IF /\ ~ip.extrapolation
            /\ (x < ip.x[1] \/ x > ip.x[Len(ip.x)] \/ y < ip.y[1] \/ y > ip.y[Len(ip.y)])
    THEN [outcome |-> "error", value |-> 0]
    ELSE LET i == locate(ip.x, x)
             j == locate(ip.y, y)
         IN  IF ~(j + 1 < rows(ip.z)) \/ ~(i + 1 < columns(ip.z))
             THEN [outcome |-> "undefined", value |-> 0]
             ELSE LET dx == ip.x[i + 2] - ip.x[i + 1]
                      dy == ip.y[j + 2] - ip.y[j + 1]
                      a == x - ip.x[i + 1]
                      b == y - ip.y[j + 1]
                      z1 == ip.z[j + 1][i + 1]
                      z2 == ip.z[j + 1][i + 2]
                      z3 == ip.z[j + 2][i + 1]
                      z4 == ip.z[j + 2][i + 2]
                  IN  IF dx * dy = 0 THEN [outcome |-> "undefined", value |-> 0]
                      ELSE [outcome |-> "ok",
                            value |-> ((dx - a) * (dy - b) * z1 + a * (dy - b) * z2
                                       + (dx - a) * b * z3 + a * b * z4) \div (dx * dy)]

\* A copy made by constructing a Cube on o's grid and then storing o's
\* points: its interpolators are those the constructor built over the zero
\* layers.
CubeCopyByConstruction(o) ==
    setPoints(CubeCtor(o.expiries, o.lengths, o.nLayers, o.extrapolation).cube,
              o.points).cube

\* Cube::Cube(const Cube& o)
CubeCopy(o) ==
    setPoints([expiries |-> o.expiries, lengths |-> o.lengths, nLayers |-> o.nLayers,
               extrapolation |-> o.extrapolation, points |-> <<>>,
               interpolators |->
                   [k \in 1..o.nLayers |->
                       enableExtrapolation(BilinearInterpolation(
                           o.expiries, o.lengths, o.points[k]))]],
              o.points).cube

\* Cube::operator=(const Cube& o): the new interpolators are pushed behind
\* those the object already has.
CubeAssign(c, o) ==
    setPoints([expiries |-> o.expiries, lengths |-> o.lengths, nLayers |-> o.nLayers,
               extrapolation |-> o.extrapolation, points |-> c.points,
               interpolators |->
                   c.interpolators \o
                   [k \in 1..o.nLayers |->
                       enableExtrapolation(BilinearInterpolation(
                           o.expiries, o.lengths, o.points[k]))]],
              o.points).cube

\* Cube::operator()(expiry, length): every layer's interpolator at the point.
CubeValue(c, expiry, length) ==
    LET r == [k \in 1..c.nLayers |->
                 IF k <= Len(c.interpolators)
                 THEN BilinearValue(c.interpolators[k], expiry, length)
                 ELSE [outcome |-> "undefined", value |-> 0]]
    IN  [outcome |-> IF \E k \in 1..c.nLayers : r[k].outcome = "undefined" THEN "undefined"
                     ELSE IF \E k \in 1..c.nLayers : r[k].outcome = "error" THEN "error"
                     ELSE "ok",
         value |-> [k \in 1..c.nLayers |-> r[k].value]]

(***************************************************************************)
(* The Cube under its mutators                                             *)
(***************************************************************************)
\* Strictly increasing grids of at least two lines over GridValues.
Grids ==
    { s \in UNION { [1..n -> GridValues] : n \in 2..Cardinality(GridValues) } :
        StrictlyIncreasing(s) }

NoCall == [op |-> "construct", outcome |-> "ok", msg |-> "",
           expiry |-> 0, length |-> 0, point |-> <<>>, pre |-> <<>>]

Call(op, r, expiry, length, point, pre) ==
    [op |-> op, outcome |-> r.outcome, msg |-> r.msg,
     expiry |-> expiry, length |-> length, point |-> point, pre |-> pre]

Init ==
    /\ \E e \in Grids, l \in Grids, n \in LayerCounts :
           cube = CubeCtor(e, l, n, TRUE).cube
    /\ last = NoCall
    /\ nOps = 0
    /\ inp = <<>> /\ pc = "idle" /\ obj = <<>> /\ cnt = <<>> /\ err = "" /\ loc = <<>>
    /\ callers = <<>>

\* A Cube exists; after an out-of-bounds access nothing more is said about
\* the program.
CanCall == nOps < MaxOps /\ last.outcome # "undefined" /\ cube # NullCube

\* Arguments of setElement: the first and the last element, and one index
\* past the end on each axis.
ElementArgs(c) ==
    { <<0, 0, 0>>,
      <<c.nLayers - 1, Len(c.expiries) - 1, Len(c.lengths) - 1>>,
      <<0, Len(c.expiries) - 1, 0>>,
      <<c.nLayers, 0, 0>>,
      <<0, Len(c.expiries), 0>>,
      <<0, 0, Len(c.lengths)>> }

\* Shapes handed to setLayer and setPoints: the grid's, one row more, one
\* column less.
ShapeDeltas == { <<0, 0>>, <<1, 0>>, <<0, -1>> }
Shaped(c, d) == TaggedMatrix(Len(c.expiries) + d[1], Len(c.lengths) + d[2])

LayerArgs(c) ==
    { <<0, <<0, 0>> >>, <<c.nLayers - 1, <<0, 0>> >>, <<c.nLayers, <<0, 0>> >>,
      <<0, <<1, 0>> >>, <<0, <<0, -1>> >> }

\* Arguments of setPoints: the number of layers, the shape of the first
\* layer and the shape of the others.
PointsArgs(c) ==
    { <<c.nLayers, d0, <<0, 0>> >> : d0 \in ShapeDeltas }
    \cup { <<c.nLayers, <<0, 0>>, d1>> : d1 \in ShapeDeltas }
    \cup { <<c.nLayers + 1, <<0, 0>>, <<0, 0>> >> }

SetElement ==
    /\ CanCall
    /\ \E a \in ElementArgs(cube) :
           LET r == setElement(cube, a[1], a[2], a[3], 9)
           IN  /\ cube' = r.cube
               /\ last' = Call("setElement", r, a[2], a[3], <<a[1], 9>>, cube)
    /\ nOps' = nOps + 1
    /\ UNCHANGED <<buildVars, callers>>

SetLayer ==
    /\ CanCall
    /\ \E a \in LayerArgs(cube) :
           LET r == setLayer(cube, a[1], Shaped(cube, a[2]))
           IN  /\ cube' = r.cube
               /\ last' = Call("setLayer", r, 0, 0, <<a[1]>>, cube)
    /\ nOps' = nOps + 1
    /\ UNCHANGED <<buildVars, callers>>

SetPoints ==
    /\ CanCall
    /\ \E a \in PointsArgs(cube) :
           LET x == [k \in 1..a[1] |-> Shaped(cube, IF k = 1 THEN a[2] ELSE a[3])]
               r == setPoints(cube, x)
           IN  /\ cube' = r.cube
               /\ last' = Call("setPoints", r, 0, 0, <<a[1]>>, cube)
    /\ nOps' = nOps + 1
    /\ UNCHANGED <<buildVars, callers>>

SetPoint ==
    /\ CanCall
    /\ \E e \in GridValues, l \in GridValues :
           LET point == [k \in 1..cube.nLayers |-> 20 + k]
               r == setPoint(cube, e, l, point)
           IN  /\ cube' = r.cube
               /\ last' = Call("setPoint", r, e, l, point, cube)
    /\ nOps' = nOps + 1
    /\ UNCHANGED <<buildVars, callers>>

UpdateInterpolators ==
    /\ CanCall
    /\ LET r == updateInterpolators(cube)
       IN  /\ cube' = r.cube
           /\ last' = Call("updateInterpolators", r, 0, 0, <<>>, cube)
    /\ nOps' = nOps + 1
    /\ UNCHANGED <<buildVars, callers>>

\* Cube::operator()(expiry, length) at a node of the grid, called once
\* updateInterpolators has returned.
CallOperator ==
    /\ last.op = "updateInterpolators" /\ last.outcome = "ok"
    /\ \E i \in 1..Len(cube.expiries), j \in 1..Len(cube.lengths) :
           LET r == CubeValue(cube, cube.expiries[i], cube.lengths[j])
           IN  last' = [op |-> "operator()", outcome |-> r.outcome, msg |-> "",
                        expiry |-> cube.expiries[i], length |-> cube.lengths[j],
                        point |-> r.value, pre |-> cube]
    /\ UNCHANGED <<cube, nOps>>
    /\ UNCHANGED <<buildVars, callers>>

Next ==
    \/ SetElement
    \/ SetLayer
    \/ SetPoints
    \/ SetPoint
    \/ UpdateInterpolators
    \/ CallOperator

Spec == Init /\ [][Next]_vars

(***************************************************************************)
(* Construction, copy and assignment of a Cube                             *)
(***************************************************************************)
\* Grids handed to Cube::Cube: empty, one line, increasing, decreasing,
\* with a repeated line.
CtorGrids == { <<>>, <<1>>, <<1, 2>>, <<2, 1>>, <<1, 1>>, <<1, 2, 3>>, <<1, 3, 2>> }

\* No Cube has been constructed.
NotConstructed == [NoCall EXCEPT !.op = "none"]

CtorInit ==
    /\ cube = NullCube
    /\ last = NotConstructed
    /\ nOps = 0
    /\ inp = <<>> /\ pc = "idle" /\ obj = <<>> /\ cnt = <<>> /\ err = "" /\ loc = <<>>
    /\ callers = <<>>

\* Cube::Cube(expiries, lengths, nLayers, extrapolation); a constructor that
\* raises leaves no object.
Construct ==
    /\ last = NotConstructed
    /\ \E e \in CtorGrids, l \in CtorGrids, n \in LayerCounts, x \in BOOLEAN :
           LET r == CubeCtor(e, l, n, x)
           IN  /\ cube' = IF r.outcome = "ok" THEN r.cube ELSE NullCube
               /\ last' = Call("Cube", r, 0, 0, <<>>,
                               [expiries |-> e, lengths |-> l, nLayers |-> n,
                                extrapolation |-> x])
    /\ nOps' = nOps + 1
    /\ UNCHANGED <<buildVars, callers>>

\* Cube::Cube(const Cube& o), o the Cube in hand.
CopyConstruct ==
    /\ CanCall
    /\ cube' = CubeCopy(cube)
    /\ last' = [NoCall EXCEPT !.op = "Cube(const Cube&)", !.pre = cube]
    /\ nOps' = nOps + 1
    /\ UNCHANGED <<buildVars, callers>>

\* Cube::operator=(const Cube& o), o the Cube in hand, on a Cube that was
\* default-constructed or constructed over another grid.
Assign ==
    /\ CanCall
    /\ \E target \in { NullCube, CubeCtor(<<1, 2>>, <<1, 2>>, 1, TRUE).cube } :
           cube' = CubeAssign(target, cube)
    /\ last' = [NoCall EXCEPT !.op = "operator=", !.pre = cube]
    /\ nOps' = nOps + 1
    /\ UNCHANGED <<buildVars, callers>>

CtorNext ==
    \/ Construct
    \/ CopyConstruct
    \/ Assign
    \/ UpdateInterpolators

SpecCtor == CtorInit /\ [][CtorNext]_vars

(***************************************************************************)
(* Properties of the Cube                                                  *)
(***************************************************************************)
Range(s) == { s[a] : a \in 1..Len(s) }
Position(s, v) == CHOOSE a \in 1..Len(s) : s[a] = v
SortedInsert(s, v) ==
    IF v \in Range(s) THEN s
    ELSE LET below == Cardinality({ a \in 1..Len(s) : s[a] < v })
         IN  SubSeq(s, 1, below) \o <<v>> \o SubSeq(s, below + 1, Len(s))
HasGridShape(c, k) ==
    rows(c.points[k]) = Len(c.expiries) /\ columns(c.points[k]) = Len(c.lengths)
Regular(c) == \A k \in 1..c.nLayers : HasGridShape(c, k)
SortedGrids(c) == StrictlyIncreasing(c.expiries) /\ StrictlyIncreasing(c.lengths)
SetPointReturned == last.op = "setPoint" /\ last.outcome = "ok"
InsertedExpiry == Len(cube.expiries) > Len(last.pre.expiries)
InsertedLength == Len(cube.lengths) > Len(last.pre.lengths)

\* C1: a setPoint(e1, t1, values) that returns leaves every value stored at
\* another logical coordinate (e0, t0) of a strictly increasing grid at the
\* index now resolved for (e0, t0), in every layer, whether or not a row or a
\* column was inserted.
C1_InsertionStable ==
    (SetPointReturned /\ SortedGrids(last.pre)) =>
        \A k \in 1..last.pre.nLayers :
            \A a \in 1..Len(last.pre.expiries), b \in 1..Len(last.pre.lengths) :
                (/\ a <= rows(last.pre.points[k])
                 /\ b <= columns(last.pre.points[k])
                 /\ <<last.pre.expiries[a], last.pre.lengths[b]>>
                        # <<last.expiry, last.length>>)
                => /\ last.pre.expiries[a] \in Range(cube.expiries)
                   /\ last.pre.lengths[b] \in Range(cube.lengths)
                   /\ cube.points[k][Position(cube.expiries, last.pre.expiries[a])]
                                    [Position(cube.lengths, last.pre.lengths[b])]
                        = last.pre.points[k][a][b]

\* A row and a column were inserted in front of a stored non-zero value, whose
\* storage index moved on both axes.
C1_Witness ==
    /\ SetPointReturned /\ InsertedExpiry /\ InsertedLength
    /\ \E k \in 1..last.pre.nLayers :
         \E a \in 1..Len(last.pre.expiries), b \in 1..Len(last.pre.lengths) :
            /\ Regular(last.pre)
            /\ last.pre.points[k][a][b] # 0
            /\ Position(cube.expiries, last.pre.expiries[a]) # a
            /\ Position(cube.lengths, last.pre.lengths[b]) # b

\* C2: setPoint(expiry, length, values) on a Cube with strictly increasing
\* grids returns for every expiry and length, inserts a value that is not in
\* the grid at its sorted position (below the first, between two, above the
\* last), grows every layer to the new grid and writes values[k] into layer k
\* at the resolved indices.
C2_SetPointInsertsAnywhere ==
    (last.op = "setPoint" /\ SortedGrids(last.pre) /\ Regular(last.pre)) =>
        /\ last.outcome = "ok"
        /\ cube.expiries = SortedInsert(last.pre.expiries, last.expiry)
        /\ cube.lengths = SortedInsert(last.pre.lengths, last.length)
        /\ Regular(cube)
        /\ \A k \in 1..cube.nLayers :
               cube.points[k][Position(cube.expiries, last.expiry)]
                             [Position(cube.lengths, last.length)] = last.point[k]

\* C3: a setPoint that returns on a Cube with strictly increasing grids
\* leaves both grids strictly increasing, with the new value in them and no
\* placeholder 0 left.
C3_GridsStayIncreasing ==
    (SetPointReturned /\ SortedGrids(last.pre)) =>
        /\ StrictlyIncreasing(cube.expiries)
        /\ StrictlyIncreasing(cube.lengths)
        /\ 0 \notin Range(cube.expiries) \cup Range(cube.lengths)
        /\ last.expiry \in Range(cube.expiries)
        /\ last.length \in Range(cube.lengths)

\* A grid line was inserted between two existing ones, or in front of them.
C3_Witness ==
    /\ SetPointReturned
    /\ InsertedExpiry
    /\ InsertedLength
    /\ Position(cube.expiries, last.expiry) < Len(cube.expiries)
    /\ Position(cube.lengths, last.length) = 1

\* C4: after every call that returns, each of the nLayers layers has exactly
\* |expiries| rows and |lengths| columns, and a setPoint that inserted a grid
\* line left zero in every cell of the new row or column but the written one.
C4_LayersHaveGridShape ==
    last.outcome = "ok" =>
        /\ Len(cube.points) = cube.nLayers
        /\ Regular(cube)
        /\ (last.op = "setPoint" /\ Regular(last.pre)) =>
              \A k \in 1..cube.nLayers :
                 \A a \in 1..Len(cube.expiries), b \in 1..Len(cube.lengths) :
                    (/\ \/ InsertedExpiry /\ cube.expiries[a] = last.expiry
                        \/ InsertedLength /\ cube.lengths[b] = last.length
                     /\ <<cube.expiries[a], cube.lengths[b]>>
                            # <<last.expiry, last.length>>)
                    => cube.points[k][a][b] = 0

(***************************************************************************)
(* The two cube variants: SwaptionVolatilityCube (spread interpolation)    *)
(* and SwaptionVolatilityCubeBySabr.  The exercise times and time lengths  *)
(* the constructors derive from the Periods with the calendar and the day  *)
(* counter are taken as the input; volatilities and rates are fixed-point  *)
(* integers.                                                               *)
(***************************************************************************)
Variants == { "SwaptionVolatilityCube", "SwaptionVolatilityCubeBySabr" }

\* exerciseTimes_ / timeLengths_ as computed from the expiries / lengths.
TimeInputs == { <<0, 2>>, <<2>>, <<2, 2>>, <<4, 2>>, <<2, 4>>, <<2, 4, 6>> }
StrikeSpreadInputs == { <<0>>, <<1, 0>>, <<0, 1>>, <<-1, 0, 1>>, <<-1, 1, 1>> }
\* volSpreads has nExercise*nlengths + d[1] rows and nStrikes + d[2] columns.
SpreadShapeDeltas == { <<0, 0>>, <<-1, 0>>, <<1, 0>>, <<0, -1>>, <<0, 1>>, <<1, 1>> }
SpreadKinds == { "zero", "skew" }

\* volSpreads[r][c] (0-based) of the input matrix m.
SpreadElement(m, r, c) ==
    IF m.kind = "zero" THEN 0 ELSE 4 * (c + 1) + 8 * r

\* atmStrike(start, length): the fair rate of the forward swap.
atmStrike(start, length) == 40 + 2 * start + length

\* atmVolStructure_->volatility(start, length, atmForward)
atmVolatility(start, length, strike) == 200 - 8 * start + 4 * length

NoObject ==
    [volSpreads_ |-> <<>>, volSpreadsInterpolator_ |-> <<>>,
     localStrikes_ |-> <<>>, localSmile_ |-> <<>>,
     marketVolCube_ |-> NullCube, sparseParameters_ |-> NullCube,
     volCubeAtmCalibrated_ |-> NullCube, denseParameters_ |-> NullCube,
     sparseSmiles_ |-> <<>>,
     atmExerciseTimes |-> <<>>, atmTimeLengths |-> <<>>]

NoCount == [spreadReads |-> 0, atmCalls |-> 0, fits |-> 0]

CheckWithoutRows(exerciseTimes_, timeLengths_, strikeSpreads_, volSpreads) ==
    LET nStrikes_ == Len(strikeSpreads_)
    IN  IF ~(0 < exerciseTimes_[1]) THEN "first exercise time is negative"
        ELSE IF ~StrictlyIncreasing(exerciseTimes_) THEN "non increasing exercise times"
        ELSE IF ~(0 < timeLengths_[1]) THEN "first time length is negative"
        ELSE IF ~StrictlyIncreasing(timeLengths_) THEN "non increasing time length"
        ELSE IF ~(nStrikes_ > 1) THEN "too few strikes"
        ELSE IF ~StrictlyIncreasing(strikeSpreads_) THEN "non increasing strike spreads"
        ELSE IF ~(nStrikes_ = volSpreads.columns) THEN "nStrikes_!=volSpreads.columns()"
        ELSE ""

\* SwaptionVolatilityCube::SwaptionVolatilityCube, up to the QL_REQUIREs on
\* volSpreads: "" when every check passes, else the message of the first
\* one that fails.
CheckSwaptionVolatilityCube(exerciseTimes_, timeLengths_, strikeSpreads_, volSpreads) ==
    LET nStrikes_ == Len(strikeSpreads_)
    IN  IF ~(0 < exerciseTimes_[1]) THEN "first exercise time is negative"
        ELSE IF \E i \in 2..Len(exerciseTimes_) : ~(exerciseTimes_[i - 1] < exerciseTimes_[i])
        THEN "non increasing exercise times"
        ELSE IF ~(0 < timeLengths_[1]) THEN "first time length is negative"
        ELSE IF \E i \in 2..Len(timeLengths_) : ~(timeLengths_[i - 1] < timeLengths_[i])
        THEN "non increasing time length"
        ELSE IF ~(nStrikes_ > 1) THEN "too few strikes"
        ELSE IF \E i \in 2..nStrikes_ : ~(strikeSpreads_[i - 1] < strikeSpreads_[i])
        THEN "non increasing strike spreads"
        ELSE IF ~(nStrikes_ = volSpreads.columns) THEN "nStrikes_!=volSpreads.columns()"
        ELSE IF ~(Len(exerciseTimes_) * Len(timeLengths_) = volSpreads.rows)
        THEN "nExercise*nlengths!=volSpreads.rows()"
        ELSE ""

CheckRowsBeforeColumns(exerciseTimes_, timeLengths_, strikeSpreads_, volSpreads_) ==
    LET m == CheckSwaptionVolatilityCube(exerciseTimes_, timeLengths_, strikeSpreads_,
                 [volSpreads_ EXCEPT !.columns = Len(strikeSpreads_)])
    IN  IF m = "nExercise*nlengths!=volSpreads.rows()"
        THEN "nExercise*nlengths!=marketVolCube.rows()"
        ELSE IF m = "" /\ Len(strikeSpreads_) # volSpreads_.columns
        THEN "nStrikes_!=marketVolCube.columns()"
        ELSE m

\* SwaptionVolatilityCubeBySabr::SwaptionVolatilityCubeBySabr, likewise.
CheckSwaptionVolatilityCubeBySabr(exerciseTimes_, timeLengths_, strikeSpreads_, volSpreads_) ==
    LET nStrikes_ == Len(strikeSpreads_)
    IN  IF ~(0 < exerciseTimes_[1]) THEN "first exercise time is negative"
        ELSE IF \E i \in 2..Len(exerciseTimes_) : ~(exerciseTimes_[i - 1] < exerciseTimes_[i])
        THEN "non increasing exercise times"
        ELSE IF ~(0 < timeLengths_[1]) THEN "first time length is negative"
        ELSE IF \E i \in 2..Len(timeLengths_) : ~(timeLengths_[i - 1] < timeLengths_[i])
        THEN "non increasing time length"
        ELSE IF ~(nStrikes_ > 1) THEN "too few strikes"
        ELSE IF \E i \in 2..nStrikes_ : ~(strikeSpreads_[i - 1] < strikeSpreads_[i])
        THEN "non increasing strike spreads"
        ELSE IF ~(nStrikes_ = volSpreads_.columns) THEN "nStrikes_!=marketVolCube.columns()"
        ELSE IF ~(Len(exerciseTimes_) * Len(timeLengths_) = volSpreads_.rows)
        THEN "nExercise*nlengths!=marketVolCube.rows()"
        ELSE ""

\* QL_ENSURE(sabrInterpolation->interpolationError()<1e-4, ...): the
\* tolerance, in units of 1e-5.
Tolerance == 10
\* interpolationError() of a fit, in units of 1e-5.
FitErrors == { 0, 9, 10, 11 }
AccuracyNotReached == "VarianceSmileSection::VarianceSmileSection: accuracy not reached"

\* SABRInterpolation(strikes, volatilities, expiry, forward, Null, .7, Null,
\* Null): the fitted alpha, beta, nu, rho.  The fit is a line through the
\* observations' ends: nu its slope, alpha its value at the forward, beta the
\* fixed .7 (in tenths).
SabrFit(strikes, volatilities, expiry, forward) ==
    LET n == Len(strikes)
        nu == (volatilities[n] - volatilities[1]) \div (strikes[n] - strikes[1])
    IN  [alpha |-> volatilities[1] - nu * (strikes[1] - forward),
         beta |-> 7, nu |-> nu, rho |-> 0]

\* VarianceSmileSection(sabrParameters, strikes, timeToExpiry)
SabrSmileSection(sabrParameters, timeToExpiry) ==
    [alpha |-> sabrParameters[1], beta |-> sabrParameters[2], nu |-> sabrParameters[3],
     rho |-> sabrParameters[4], forward |-> sabrParameters[5],
     timeToExpiry |-> timeToExpiry]

\* VarianceSmileSection::volatility(strike) of a SABR section: the line the
\* fit stands for.
SmileVolatility(section, strike) ==
    section.alpha + section.nu * (strike - section.forward)

\* SwaptionVolatilityCubeBySabr::smileSection(expiry, length, sabrParametersCube):
\* the Cube is passed by value.
smileSectionOf(expiry, length, sabrParametersCube) ==
    LET r == CubeValue(CubeCopy(sabrParametersCube), expiry, length)
    IN  [outcome |-> IF Len(r.value) < 5 THEN "undefined" ELSE r.outcome,
         section |-> IF Len(r.value) < 5 THEN <<>>
                     ELSE SabrSmileSection(r.value, expiry)]

\* The bracketing index of spreadVolInterpolation on one axis.
previousIndex(grid, x) ==
    LET i == lower_bound(grid, x)
    IN  IF i = Len(grid) - 1 THEN i - 1 ELSE i

\* The four spreads taken at the strike with the target's spread to the
\* forward, strikes[i][j] = atmForwards[i][j] + (strike - atmForward), instead
\* of at the target's moneyness.
spreadVolAtSameSpread(smiles, exercisesNodes, lengthsNodes, atmForwards, atmForward, strike, atmExerciseTime, atmTimeLength) ==
    LET atmVols == [i \in 1..2 |-> [j \in 1..2 |->
                      SmileVolatility(smiles[i][j], atmForwards[i][j])]]
        spreadVols ==
            [i \in 1..2 |-> [j \in 1..2 |->
                SmileVolatility(smiles[i][j], atmForwards[i][j] + (strike - atmForward))
                - atmVols[i][j]]]
    IN  BilinearValue(
            enableExtrapolation(BilinearInterpolation(
                exercisesNodes, lengthsNodes, spreadVols)),
            atmExerciseTime, atmTimeLength).value

\* spreadVolInterpolation, one pass of its loop over the strikes: the spread
\* of each of the four smiles at the strike of the target's moneyness,
\* strikes[i][j] = atmForwards[i][j]/moneyness with moneyness =
\* atmForward/strike, combined bilinearly at the target.
spreadVolAt(smiles, exercisesNodes, lengthsNodes, atmForwards, atmForward, strike, atmExerciseTime, atmTimeLength) ==
    LET atmVols == [i \in 1..2 |-> [j \in 1..2 |->
                      SmileVolatility(smiles[i][j], atmForwards[i][j])]]
        spreadVols ==
            [i \in 1..2 |-> [j \in 1..2 |->
                SmileVolatility(smiles[i][j], (atmForwards[i][j] * strike) \div atmForward)
                - atmVols[i][j]]]
    IN  BilinearValue(
            enableExtrapolation(BilinearInterpolation(
                exercisesNodes, lengthsNodes, spreadVols)),
            atmExerciseTime, atmTimeLength).value

\* SwaptionVolatilityCubeBySabr::spreadVolInterpolation(atmExerciseTime, atmTimeLength)
spreadVolInterpolation(o, strikeSpreads_, atmExerciseTime, atmTimeLength) ==
    LET exerciseTimes == o.sparseParameters_.expiries
        timeLengths == o.sparseParameters_.lengths
        expiriesPreviousIndex == previousIndex(exerciseTimes, atmExerciseTime)
        lengthsPreviousIndex == previousIndex(timeLengths, atmTimeLength)
        inBounds ==
            /\ 0 <= expiriesPreviousIndex
            /\ expiriesPreviousIndex + 1 < Len(o.sparseSmiles_)
            /\ expiriesPreviousIndex + 1 < Len(exerciseTimes)
            /\ 0 <= lengthsPreviousIndex
            /\ lengthsPreviousIndex + 1 < Len(timeLengths)
            /\ \A a \in 1..Len(o.sparseSmiles_) :
                   lengthsPreviousIndex + 1 < Len(o.sparseSmiles_[a])
        smiles == [i \in 1..2 |-> [j \in 1..2 |->
                     o.sparseSmiles_[expiriesPreviousIndex + i][lengthsPreviousIndex + j]]]
        exercisesNodes == [i \in 1..2 |-> exerciseTimes[expiriesPreviousIndex + i]]
        lengthsNodes == [j \in 1..2 |-> timeLengths[lengthsPreviousIndex + j]]
        atmForward == atmStrike(atmExerciseTime, atmTimeLength)
        atmForwards == [i \in 1..2 |-> [j \in 1..2 |->
                          atmStrike(exercisesNodes[i], lengthsNodes[j])]]
        at(k) == spreadVolAt(smiles, exercisesNodes, lengthsNodes, atmForwards,
                             atmForward, atmForward + strikeSpreads_[k],
                             atmExerciseTime, atmTimeLength)
    IN  IF ~inBounds THEN [outcome |-> "undefined", value |-> <<>>]
        ELSE [outcome |-> "ok", value |-> [k \in 1..Len(strikeSpreads_) |-> at(k)]]

\* The native grid of the ATM volatility matrix, on either axis.
AtmGrids == { <<2, 4>>, <<1, 4>>, <<3, 4>>, <<2, 5>>, <<2, 7>>, <<1, 3, 5>> }
\* What a read past the end of sparseSmiles_ may yield as a spread.
GarbageSpreads == { -1000, 1000 }

\* No member function is running.
NoLocals == [fn |-> "none"]

\* The callers querying the constructed object, and a caller not in a call.
Callers == { 1, 2 }
IdleFrame ==
    [pc |-> "idle", op |-> "", start |-> 0, length |-> 0, strike |-> 0, i |-> 0,
     atmForward |-> 0, atmVol |-> 0, s |-> <<>>, result |-> 0, error |-> 0,
     after |-> {}]

\* The callers whose query has returned; a query that begins records them in
\* its frame as the queries it comes after.
Returned == { d \in Callers : callers[d].pc = "returned" }

\* The (start, length, strike) a query is made with.
QueryArgs == { <<2, 2, 47>>, <<2, 4, 48>> }

\* LinearInterpolation(xBegin, xEnd, yBegin): the slopes are computed when it
\* is constructed, the nodes are read through the iterators when it is
\* evaluated.
LinearSlopes(xs, ys) ==
    [a \in 1..(Len(xs) - 1) |->
        IF xs[a + 1] = xs[a] THEN 0 ELSE (ys[a + 1] - ys[a]) \div (xs[a + 1] - xs[a])]

LinearValue(xs, ys, slopes, x) ==
    LET a == locate(xs, x)
    IN  ys[a + 1] + (x - xs[a + 1]) * slopes[a + 1]

BuildInit ==
    /\ \E v \in Variants, e \in TimeInputs, l \in TimeInputs,
          s \in StrikeSpreadInputs, d \in SpreadShapeDeltas, kind \in SpreadKinds :
           inp = [variant |-> v, exerciseTimes |-> e, timeLengths |-> l,
                  strikeSpreads |-> s,
                  volSpreads |-> [rows |-> Len(e) * Len(l) + d[1],
                                  columns |-> Len(s) + d[2], kind |-> kind]]
    /\ pc = "start"
    /\ obj = NoObject
    /\ cnt = NoCount
    /\ err = ""
    /\ loc = NoLocals
    /\ callers = [c \in Callers |-> IdleFrame]
    /\ cube = NullCube /\ last = NoCall /\ nOps = 0

nExercise == Len(inp.exerciseTimes)
nlengths == Len(inp.timeLengths)
nStrikes == Len(inp.strikeSpreads)

\* The index pairs (j, k) of the loops over the grid, in loop order.
Cells == (0..(nExercise - 1)) \X (0..(nlengths - 1))

\* Some volSpreads[j*nlengths+k][i] of the fill loops lies outside the matrix.
SpreadReadOutOfBounds ==
    \E i \in 0..(nStrikes - 1), jk \in Cells :
        \/ ~(jk[1] * nlengths + jk[2] < inp.volSpreads.rows)
        \/ ~(i < inp.volSpreads.columns)

\* The QL_REQUIREs of the constructor in hand.
CheckInputs ==
    /\ pc = "start"
    /\ LET m == IF inp.variant = "SwaptionVolatilityCube"
                THEN CheckSwaptionVolatilityCube(inp.exerciseTimes, inp.timeLengths,
                                                 inp.strikeSpreads, inp.volSpreads)
                ELSE CheckSwaptionVolatilityCubeBySabr(inp.exerciseTimes, inp.timeLengths,
                                                       inp.strikeSpreads, inp.volSpreads)
       IN  /\ err' = m
           /\ pc' = IF m # "" THEN "failed" ELSE "checked"
    /\ UNCHANGED <<inp, obj, cnt, loc>>
    /\ UNCHANGED <<cubeVars, callers>>

\* SwaptionVolatilityCube: the loops filling volSpreads_ and building
\* volSpreadsInterpolator_.
FillVolSpreads ==
    /\ pc = "checked"
    /\ inp.variant = "SwaptionVolatilityCube"
    /\ cnt' = [cnt EXCEPT !.spreadReads = @ + nStrikes * nExercise * nlengths]
    /\ IF SpreadReadOutOfBounds
       THEN pc' = "undefined" /\ obj' = obj
       ELSE LET volSpreads_ ==
                    [i \in 1..nStrikes |->
                        [j \in 1..nExercise |->
                            [k \in 1..nlengths |->
                                SpreadElement(inp.volSpreads,
                                              (j - 1) * nlengths + (k - 1), i - 1)]]]
            IN  /\ obj' = [obj EXCEPT
                      !.volSpreads_ = volSpreads_,
                      !.volSpreadsInterpolator_ =
                          [i \in 1..nStrikes |->
                              enableExtrapolation(BilinearInterpolation(
                                  inp.timeLengths, inp.exerciseTimes, volSpreads_[i]))],
                      !.localStrikes_ = [i \in 1..nStrikes |-> 0],
                      !.localSmile_ = [i \in 1..nStrikes |-> 0]]
                /\ pc' = "done"
    /\ UNCHANGED <<inp, err, loc>>
    /\ UNCHANGED <<cubeVars, callers>>

\* The locals of sabrCalibration(argument) when it starts.
StartCalibration(pass, argument) ==
    [fn |-> "sabrCalibration", pass |-> pass, argument |-> argument, j |-> 0, k |-> 0,
     alphas |-> Matrix(nExercise, nlengths, 0), betas |-> Matrix(nExercise, nlengths, 0),
     nus |-> Matrix(nExercise, nlengths, 0), rhos |-> Matrix(nExercise, nlengths, 0),
     forwards |-> Matrix(nExercise, nlengths, 0), error |-> 0]

\* SwaptionVolatilityCubeBySabr: marketVolCube_ is constructed and filled
\* with atmVol + volSpreads_, then its interpolators are rebuilt.
FillMarketVolCube ==
    /\ pc = "checked"
    /\ inp.variant = "SwaptionVolatilityCubeBySabr"
    /\ LET made == CubeCtor(inp.exerciseTimes, inp.timeLengths, nStrikes, TRUE)
           market == [made.cube EXCEPT !.points =
                        [i \in 1..nStrikes |->
                            [j \in 1..nExercise |->
                                [k \in 1..nlengths |->
                                    atmVolatility(inp.exerciseTimes[j], inp.timeLengths[k],
                                        atmStrike(inp.exerciseTimes[j], inp.timeLengths[k]))
                                    + SpreadElement(inp.volSpreads,
                                                    (j - 1) * nlengths + (k - 1), i - 1)]]]]
       IN  IF made.outcome # "ok"
           THEN /\ pc' = "failed" /\ err' = made.msg /\ obj' = obj
                /\ cnt' = [cnt EXCEPT !.atmCalls = @ + 1]
           ELSE /\ cnt' = [cnt EXCEPT !.atmCalls = @ + 1 + nStrikes * nExercise * nlengths,
                                      !.spreadReads = @ + nStrikes * nExercise * nlengths]
                /\ IF SpreadReadOutOfBounds
                   THEN pc' = "undefined" /\ obj' = obj
                   ELSE /\ obj' = [obj EXCEPT !.marketVolCube_ =
                                      updateInterpolators(market).cube]
                        /\ pc' = "sabrCalibration"
                /\ err' = err
    /\ loc' = IF pc' = "sabrCalibration"
              THEN StartCalibration(1, "marketVolCube_") ELSE loc
    /\ UNCHANGED inp
    /\ UNCHANGED <<cubeVars, callers>>

\* The Cube sabrCalibration reads the volatilities from (line 404), whatever
\* its argument.
calibrationPoints(o, argument) == o.marketVolCube_.points

\* The grid sabrCalibration loops over and builds its result on.
calibrationExpiries(o, argument) == inp.exerciseTimes
calibrationLengths(o, argument) == inp.timeLengths

accuracyReachedAtTolerance(e) == e <= Tolerance

\* The accuracy check after a fit with interpolation error e.
accuracyReached(e) == e < Tolerance

CalibrateNodeIntoCube ==
    /\ pc = "sabrCalibration"
    /\ loc.j < Len(calibrationExpiries(obj, loc.argument))
    /\ \E e \in FitErrors :
        LET expiries == calibrationExpiries(obj, loc.argument)
            lengths == calibrationLengths(obj, loc.argument)
            tmpMarketVolCube == calibrationPoints(obj, loc.argument)
            j == loc.j
            k == loc.k
            atmForward == atmStrike(expiries[j + 1], lengths[k + 1])
            strikes == [i \in 1..nStrikes |-> atmForward + inp.strikeSpreads[i]]
            volatilities == [i \in 1..nStrikes |-> tmpMarketVolCube[i][j + 1][k + 1]]
            fit == SabrFit(strikes, volatilities, expiries[j + 1], atmForward)
            last_k == k + 1 = Len(lengths)
        IN  IF ~accuracyReached(e)
            THEN /\ pc' = "failed"
                 /\ err' = AccuracyNotReached
                 /\ loc' = [loc EXCEPT !.error = e]
            ELSE /\ pc' = pc
                 /\ err' = err
                 /\ loc' = [loc EXCEPT
                        !.alphas[j + 1][k + 1] = fit.alpha,
                        !.betas[j + 1][k + 1] = fit.beta,
                        !.nus[j + 1][k + 1] = fit.nu,
                        !.rhos[j + 1][k + 1] = fit.rho,
                        !.forwards[j + 1][k + 1] = atmForward,
                        !.error = e,
                        !.j = IF last_k THEN j + 1 ELSE j,
                        !.k = IF last_k THEN 0 ELSE k + 1]
    /\ cnt' = [cnt EXCEPT !.fits = @ + 1]
    /\ obj' = [obj EXCEPT !.sparseParameters_.points = <<loc'.alphas>>]
    /\ UNCHANGED inp
    /\ UNCHANGED <<cubeVars, callers>>

\* sabrCalibration: one pass of the loop body, at node (j, k).
CalibrateNode ==
    /\ pc = "sabrCalibration"
    /\ loc.j < Len(calibrationExpiries(obj, loc.argument))
    /\ \E e \in FitErrors :
        LET expiries == calibrationExpiries(obj, loc.argument)
            lengths == calibrationLengths(obj, loc.argument)
            tmpMarketVolCube == calibrationPoints(obj, loc.argument)
            j == loc.j
            k == loc.k
            atmForward == atmStrike(expiries[j + 1], lengths[k + 1])
            strikes == [i \in 1..nStrikes |-> atmForward + inp.strikeSpreads[i]]
            volatilities == [i \in 1..nStrikes |-> tmpMarketVolCube[i][j + 1][k + 1]]
            fit == SabrFit(strikes, volatilities, expiries[j + 1], atmForward)
            last_k == k + 1 = Len(lengths)
        IN  IF ~accuracyReached(e)
            THEN /\ pc' = "failed"
                 /\ err' = AccuracyNotReached
                 /\ loc' = [loc EXCEPT !.error = e]
            ELSE /\ pc' = pc
                 /\ err' = err
                 /\ loc' = [loc EXCEPT
                        !.alphas[j + 1][k + 1] = fit.alpha,
                        !.betas[j + 1][k + 1] = fit.beta,
                        !.nus[j + 1][k + 1] = fit.nu,
                        !.rhos[j + 1][k + 1] = fit.rho,
                        !.forwards[j + 1][k + 1] = atmForward,
                        !.error = e,
                        !.j = IF last_k THEN j + 1 ELSE j,
                        !.k = IF last_k THEN 0 ELSE k + 1]
    /\ cnt' = [cnt EXCEPT !.fits = @ + 1]
    /\ UNCHANGED <<inp, obj>>
    /\ UNCHANGED <<cubeVars, callers>>

\* sabrCalibration returns sabrParametersCube; the constructor assigns it and
\* rebuilds its interpolators: after the first pass to sparseParameters_
\* (then volCubeAtmCalibrated_ = marketVolCube_), after the second to
\* denseParameters_.
FinishCalibration ==
    /\ pc = "sabrCalibration"
    /\ loc.j = Len(calibrationExpiries(obj, loc.argument))
    /\ LET made == CubeCtor(calibrationExpiries(obj, loc.argument),
                            calibrationLengths(obj, loc.argument), 5, TRUE).cube
           l0 == setLayer(made, 0, loc.alphas).cube
           l1 == setLayer(l0, 1, loc.betas).cube
           l2 == setLayer(l1, 2, loc.nus).cube
           l3 == setLayer(l2, 3, loc.rhos).cube
           sabrParametersCube == setLayer(l3, 4, loc.forwards).cube
       IN  IF loc.pass = 1
           THEN /\ obj' = [obj EXCEPT
                      !.sparseParameters_ = updateInterpolators(
                          CubeAssign(obj.sparseParameters_, sabrParametersCube)).cube,
                      !.volCubeAtmCalibrated_ =
                          CubeAssign(obj.volCubeAtmCalibrated_, obj.marketVolCube_)]
                /\ pc' = "fillVolatilityCube"
           ELSE /\ obj' = [obj EXCEPT
                      !.denseParameters_ = updateInterpolators(
                          CubeAssign(obj.denseParameters_, sabrParametersCube)).cube]
                /\ pc' = "done"
    /\ loc' = NoLocals
    /\ UNCHANGED <<inp, cnt, err>>
    /\ UNCHANGED <<cubeVars, callers>>

\* fillVolatilityCube, up to its loop: the ATM matrix's grid and the dense
\* cube's grid are copied, createSparseSmiles fills sparseSmiles_.
BeginFill ==
    /\ pc = "fillVolatilityCube"
    /\ \E atmE \in AtmGrids, atmL \in AtmGrids :
        LET exerciseTimes == obj.sparseParameters_.expiries
            timeLengths == obj.sparseParameters_.lengths
            made == [j \in 1..Len(exerciseTimes) |-> [k \in 1..Len(timeLengths) |->
                        smileSectionOf(exerciseTimes[j], timeLengths[k],
                                       obj.sparseParameters_)]]
            defined == \A j \in 1..Len(exerciseTimes), k \in 1..Len(timeLengths) :
                           made[j][k].outcome = "ok"
        IN  /\ obj' = [obj EXCEPT
                   !.atmExerciseTimes = atmE,
                   !.atmTimeLengths = atmL,
                   !.sparseSmiles_ =
                       IF defined
                       THEN @ \o [j \in 1..Len(exerciseTimes) |->
                                     [k \in 1..Len(timeLengths) |-> made[j][k].section]]
                       ELSE @]
            /\ pc' = IF defined THEN "fillLoop" ELSE "undefined"
            /\ loc' = [fn |-> IF defined THEN "fillVolatilityCube" ELSE "createSparseSmiles",
                       j |-> 0, k |-> 0,
                       exerciseTimes |-> obj.volCubeAtmCalibrated_.expiries,
                       timeLengths |-> obj.volCubeAtmCalibrated_.lengths]
    /\ cnt' = [cnt EXCEPT !.atmCalls = @ + 2]
    /\ UNCHANGED <<inp, err>>
    /\ UNCHANGED <<cubeVars, callers>>

\* fillVolatilityCube: one pass of the loop body, at ATM cell (j, k).
FillCell ==
    /\ pc = "fillLoop"
    /\ loc.j < Len(obj.atmExerciseTimes)
    /\ LET e == obj.atmExerciseTimes[loc.j + 1]
           l == obj.atmTimeLengths[loc.k + 1]
           expandExpiries == ~binary_search(loc.exerciseTimes, e)
           expandLengths == ~binary_search(loc.timeLengths, l)
           atmVol == atmVolatility(e, l, atmStrike(e, l))
           sv == spreadVolInterpolation(obj, inp.strikeSpreads, e, l)
           last_k == loc.k + 1 = Len(obj.atmTimeLengths)
           next == [loc EXCEPT !.j = IF last_k THEN @ + 1 ELSE @,
                               !.k = IF last_k THEN 0 ELSE @ + 1]
       IN  IF ~(expandExpiries \/ expandLengths)
           THEN /\ loc' = next
                /\ UNCHANGED <<obj, pc, err, cnt>>
           ELSE /\ cnt' = [cnt EXCEPT !.atmCalls = @ + 2]
                /\ \E read \in IF sv.outcome = "ok" THEN { [crash |-> FALSE, value |-> 0] }
                               ELSE { [crash |-> TRUE, value |-> 0] } \cup
                                    { [crash |-> FALSE, value |-> g] : g \in GarbageSpreads } :
                    IF read.crash
                    THEN /\ pc' = "undefined"
                         /\ UNCHANGED <<obj, err, loc>>
                    ELSE LET spreadVols == IF sv.outcome = "ok" THEN sv.value
                                           ELSE [i \in 1..nStrikes |-> read.value]
                             volAtmCalibrated ==
                                 [i \in 1..nStrikes |-> atmVol + spreadVols[i]]
                             r == setPoint(obj.volCubeAtmCalibrated_, e, l, volAtmCalibrated)
                         IN  /\ obj' = [obj EXCEPT !.volCubeAtmCalibrated_ = r.cube]
                             /\ pc' = IF r.outcome = "ok" THEN pc
                                      ELSE IF r.outcome = "error" THEN "failed"
                                      ELSE "undefined"
                             /\ err' = IF r.outcome = "error" THEN r.msg ELSE err
                             /\ loc' = IF r.outcome = "ok" THEN next ELSE loc
    /\ UNCHANGED inp
    /\ UNCHANGED <<cubeVars, callers>>

\* fillVolatilityCube after its loop: the dense cube's interpolators are
\* rebuilt; the constructor goes on to sabrCalibration(volCubeAtmCalibrated_).
EndFill ==
    /\ pc = "fillLoop"
    /\ loc.j = Len(obj.atmExerciseTimes)
    /\ obj' = [obj EXCEPT !.volCubeAtmCalibrated_ = updateInterpolators(@).cube]
    /\ pc' = "sabrCalibration"
    /\ loc' = StartCalibration(2, "volCubeAtmCalibrated_")
    /\ UNCHANGED <<inp, cnt, err>>
    /\ UNCHANGED <<cubeVars, callers>>

\* The object is fully constructed.
Constructed(variant) == pc = "done" /\ inp.variant = variant

\* SwaptionVolatilityCube::volatilityImpl(start, length, strike) enters
\* smile(start, length): the ATM forward and volatility are taken.
CallVolatilityImpl(c) ==
    /\ Constructed("SwaptionVolatilityCube")
    /\ callers[c].pc = "idle"
    /\ \E a \in QueryArgs :
        callers' = [callers EXCEPT ![c] =
            [IdleFrame EXCEPT !.after = Returned, !.pc = "smile", !.op = "volatilityImpl",
                              !.start = a[1], !.length = a[2], !.strike = a[3],
                              !.atmForward = atmStrike(a[1], a[2]),
                              !.atmVol = atmVolatility(a[1], a[2], atmStrike(a[1], a[2]))]]
    /\ cnt' = [cnt EXCEPT !.atmCalls = @ + 1]
    /\ UNCHANGED <<inp, pc, obj, err, loc>>
    /\ UNCHANGED cubeVars

\* A caller enters SwaptionVolatilityCube::smile(start, length) itself, to
\* read the returned interpolation at a strike.
CallSmile(c) ==
    /\ Constructed("SwaptionVolatilityCube")
    /\ callers[c].pc = "idle"
    /\ \E a \in QueryArgs :
        callers' = [callers EXCEPT ![c] =
            [IdleFrame EXCEPT !.after = Returned, !.pc = "smile", !.op = "smile",
                              !.start = a[1], !.length = a[2], !.strike = a[3],
                              !.atmForward = atmStrike(a[1], a[2]),
                              !.atmVol = atmVolatility(a[1], a[2], atmStrike(a[1], a[2]))]]
    /\ cnt' = [cnt EXCEPT !.atmCalls = @ + 1]
    /\ UNCHANGED <<inp, pc, obj, err, loc>>
    /\ UNCHANGED cubeVars

\* smile: one pass of the loop writing the members localStrikes_[i] and
\* localSmile_[i].
SmileLoop(c) ==
    /\ callers[c].pc = "smile"
    /\ callers[c].i < nStrikes
    /\ LET f == callers[c]
           v == BilinearValue(obj.volSpreadsInterpolator_[f.i + 1], f.length, f.start)
       IN  IF v.outcome # "ok"
           THEN /\ callers' = [callers EXCEPT ![c].pc = "undefined"]
                /\ obj' = obj
           ELSE /\ obj' = [obj EXCEPT
                      !.localStrikes_[f.i + 1] = f.atmForward + inp.strikeSpreads[f.i + 1],
                      !.localSmile_[f.i + 1] = f.atmVol + v.value]
                /\ callers' = [callers EXCEPT ![c].i = @ + 1]
    /\ UNCHANGED <<inp, pc, cnt, err, loc>>
    /\ UNCHANGED cubeVars

\* smile returns a LinearInterpolation over localStrikes_ and localSmile_;
\* a caller of smile itself reads it at its strike at once.
SmileReturn(c) ==
    /\ callers[c].pc = "smile"
    /\ callers[c].i = nStrikes
    /\ LET f == callers[c]
           slopes == LinearSlopes(obj.localStrikes_, obj.localSmile_)
       IN  callers' = [callers EXCEPT ![c] =
               IF f.op = "smile"
               THEN [f EXCEPT !.pc = "returned", !.s = slopes,
                              !.result = LinearValue(obj.localStrikes_, obj.localSmile_,
                                                     slopes, f.strike)]
               ELSE [f EXCEPT !.pc = "interpolate", !.s = slopes]]
    /\ UNCHANGED buildVars
    /\ UNCHANGED cubeVars

\* volatilityImpl evaluates the returned interpolation at the strike.
Evaluate(c) ==
    /\ callers[c].pc = "interpolate"
    /\ callers' = [callers EXCEPT
           ![c].pc = "returned",
           ![c].result = LinearValue(obj.localStrikes_, obj.localSmile_,
                                     callers[c].s, callers[c].strike)]
    /\ UNCHANGED buildVars
    /\ UNCHANGED cubeVars

\* SwaptionVolatilityCube::smileSection(start, length): the strikes and
\* volatilities are locals; VarianceSmileSection(start, atmForward, strikes,
\* volatilities) fits them and checks the fit's accuracy.
CallSmileSection(c) ==
    /\ Constructed("SwaptionVolatilityCube")
    /\ callers[c].pc = "idle"
    /\ \E a \in QueryArgs, e \in FitErrors :
        LET atmForward == atmStrike(a[1], a[2])
            atmVol == atmVolatility(a[1], a[2], atmForward)
            v == [i \in 1..nStrikes |->
                     BilinearValue(obj.volSpreadsInterpolator_[i], a[2], a[1])]
            strikes == [i \in 1..nStrikes |-> atmForward + inp.strikeSpreads[i]]
            volatilities == [i \in 1..nStrikes |-> atmVol + v[i].value]
            fit == SabrFit(strikes, volatilities, a[1], atmForward)
            f == [IdleFrame EXCEPT !.after = Returned, !.op = "smileSection",
                                   !.start = a[1], !.length = a[2],
                                   !.strike = a[3], !.atmForward = atmForward,
                                   !.atmVol = atmVol]
        IN  IF \E i \in 1..nStrikes : v[i].outcome # "ok"
            THEN /\ callers' = [callers EXCEPT ![c] = [f EXCEPT !.pc = "undefined"]]
                 /\ cnt' = [cnt EXCEPT !.atmCalls = @ + 1]
            ELSE /\ callers' = [callers EXCEPT ![c] =
                        IF accuracyReached(e)
                        THEN [f EXCEPT !.pc = "returned", !.error = e,
                                       !.result = <<fit.alpha, fit.beta, fit.nu, fit.rho>>]
                        ELSE [f EXCEPT !.pc = "error", !.error = e]]
                 /\ cnt' = [cnt EXCEPT !.atmCalls = @ + 1, !.fits = @ + 1]
    /\ UNCHANGED <<inp, pc, obj, err, loc>>
    /\ UNCHANGED cubeVars

\* SwaptionVolatilityCubeBySabr::smileSection(expiry, length)
smileSection(expiry, length) == smileSectionOf(expiry, length, obj.denseParameters_)

volatilityAtForward(expiry, length, strike) ==
    LET r == smileSection(expiry, length)
    IN  [outcome |-> r.outcome,
         value |-> IF r.outcome = "ok" THEN SmileVolatility(r.section, r.section.forward)
                   ELSE 0]

\* SwaptionVolatilityCubeBySabr::volatilityImpl(expiry, length, strike)
volatilityImpl(expiry, length, strike) ==
    LET r == smileSection(expiry, length)
    IN  [outcome |-> r.outcome,
         value |-> IF r.outcome = "ok" THEN SmileVolatility(r.section, strike) ELSE 0]

\* A caller's SwaptionVolatilityCubeBySabr::smileSection(expiry, length).
CallSmileSectionBySabr(c) ==
    /\ Constructed("SwaptionVolatilityCubeBySabr")
    /\ callers[c].pc = "idle"
    /\ \E a \in QueryArgs :
        LET r == smileSection(a[1], a[2])
            f == [IdleFrame EXCEPT !.after = Returned, !.op = "smileSection", !.start = a[1],
                                   !.length = a[2], !.strike = a[3]]
        IN  callers' = [callers EXCEPT ![c] =
                IF r.outcome = "ok"
                THEN [f EXCEPT !.pc = "returned", !.result = r.section]
                ELSE [f EXCEPT !.pc = "undefined"]]
    /\ UNCHANGED buildVars
    /\ UNCHANGED cubeVars

\* A caller's SwaptionVolatilityCubeBySabr::volatilityImpl(expiry, length, strike).
CallVolatilityImplBySabr(c) ==
    /\ Constructed("SwaptionVolatilityCubeBySabr")
    /\ callers[c].pc = "idle"
    /\ \E a \in QueryArgs :
        LET r == volatilityImpl(a[1], a[2], a[3])
            f == [IdleFrame EXCEPT !.after = Returned, !.op = "volatilityImpl", !.start = a[1],
                                   !.length = a[2], !.strike = a[3]]
        IN  callers' = [callers EXCEPT ![c] =
                IF r.outcome = "ok"
                THEN [f EXCEPT !.pc = "returned", !.result = r.value]
                ELSE [f EXCEPT !.pc = "undefined"]]
    /\ UNCHANGED buildVars
    /\ UNCHANGED cubeVars

Query ==
    \E c \in Callers :
        \/ CallVolatilityImpl(c)
        \/ CallSmile(c)
        \/ SmileLoop(c)
        \/ SmileReturn(c)
        \/ Evaluate(c)
        \/ CallSmileSection(c)
        \/ CallSmileSectionBySabr(c)
        \/ CallVolatilityImplBySabr(c)

BuildNext ==
    \/ CheckInputs
    \/ FillVolSpreads
    \/ FillMarketVolCube
    \/ CalibrateNode
    \/ FinishCalibration
    \/ BeginFill
    \/ FillCell
    \/ EndFill
    \/ Query

SpecBuild == BuildInit /\ [][BuildNext]_vars

(***************************************************************************)
(* spreadVolInterpolation as a function of the forwards                    *)
(***************************************************************************)
\* The factors the forwards are multiplied by.
Scales == { 2, 3 }
\* The slope of a bracketing smile in the strike, the same slope for the two
\* smiles of one expiry.
SmileSlopes == { 0, 1, 2 }
\* The forward of the target cell, its strike spreads, the forwards of the
\* four bracketing nodes.
TargetForwards == { 40, 50 }
TargetSpreads == { 5, 10 }
BracketForwards == { <<<<46, 48>>, <<50, 52>>>>, <<<<40, 60>>, <<50, 70>>>> }
\* The bracketing lines of either axis and the targets between them.
BracketNodes == <<2, 4>>
Targets == { 2, 3, 4 }

\* The four bracketing smiles, each fitted at its node's forward.
BracketSmiles(atmForwards, slopes) ==
    [i \in 1..2 |-> [j \in 1..2 |->
        [alpha |-> 200 - 10 * i + 4 * j, beta |-> 7, nu |-> slopes[i], rho |-> 0,
         forward |-> atmForwards[i][j], timeToExpiry |-> BracketNodes[i]]]]

\* Every element of the 2 x 2 matrix multiplied by c.
Scaled(m, c) == [i \in 1..2 |-> [j \in 1..2 |-> c * m[i][j]]]

SpreadInit ==
    /\ \E f \in TargetForwards, d \in TargetSpreads, b \in BracketForwards,
          n \in [1..2 -> SmileSlopes], e \in Targets, t \in Targets, c \in Scales :
           inp = [atmForward |-> f, strikeSpread |-> d, atmForwards |-> b,
                  smiles |-> BracketSmiles(b, n),
                  atmExerciseTime |-> e, atmTimeLength |-> t, scale |-> c]
    /\ pc = "start"
    /\ last = [op |-> "none", base |-> 0, scaled |-> 0]
    /\ obj = NoObject /\ cnt = NoCount /\ err = "" /\ loc = NoLocals
    /\ callers = <<>> /\ cube = NullCube /\ nOps = 0

\* The spread interpolated for the inputs as drawn.
BaseSpread ==
    spreadVolAt(inp.smiles, BracketNodes, BracketNodes, inp.atmForwards,
                inp.atmForward, inp.atmForward + inp.strikeSpread,
                inp.atmExerciseTime, inp.atmTimeLength)

\* The target's forward and strike are multiplied by the scale, which keeps
\* moneyness = atmForward/strike; the bracketing forwards stay.
ScaleTargetForward ==
    /\ pc = "start"
    /\ last' = [op |-> "scaleTarget", base |-> BaseSpread,
                scaled |-> spreadVolAt(inp.smiles, BracketNodes, BracketNodes,
                               inp.atmForwards, inp.scale * inp.atmForward,
                               inp.scale * (inp.atmForward + inp.strikeSpread),
                               inp.atmExerciseTime, inp.atmTimeLength)]
    /\ pc' = "done"
    /\ UNCHANGED <<inp, obj, cnt, err, loc, callers, cube, nOps>>

\* The target's forward and strike and the four bracketing forwards are
\* multiplied by the scale; the four smiles are the same objects.
ScaleAllForwards ==
    /\ pc = "start"
    /\ last' = [op |-> "scaleAll", base |-> BaseSpread,
                scaled |-> spreadVolAt(inp.smiles, BracketNodes, BracketNodes,
                               Scaled(inp.atmForwards, inp.scale),
                               inp.scale * inp.atmForward,
                               inp.scale * (inp.atmForward + inp.strikeSpread),
                               inp.atmExerciseTime, inp.atmTimeLength)]
    /\ pc' = "done"
    /\ UNCHANGED <<inp, obj, cnt, err, loc, callers, cube, nOps>>

SpreadNext == ScaleTargetForward \/ ScaleAllForwards

SpecSpread == SpreadInit /\ [][SpreadNext]_vars

(***************************************************************************)
(* Properties of construction and of the queries.                          *)
(***************************************************************************)

\* The first of the eight validation conditions the constructor's arguments
\* violate, 0 if none.
FirstViolation(a) ==
    IF ~(a.exerciseTimes[1] > 0) THEN 1
    ELSE IF ~StrictlyIncreasing(a.exerciseTimes) THEN 2
    ELSE IF ~(a.timeLengths[1] > 0) THEN 3
    ELSE IF ~StrictlyIncreasing(a.timeLengths) THEN 4
    ELSE IF ~(Len(a.strikeSpreads) >= 2) THEN 5
    ELSE IF ~StrictlyIncreasing(a.strikeSpreads) THEN 6
    ELSE IF a.volSpreads.columns # Len(a.strikeSpreads) THEN 7
    ELSE IF a.volSpreads.rows # Len(a.exerciseTimes) * Len(a.timeLengths) THEN 8
    ELSE 0

\* The condition an error message of either constructor stands for.
Category(m) ==
    CASE m = "first exercise time is negative" -> 1
      [] m = "non increasing exercise times" -> 2
      [] m = "first time length is negative" -> 3
      [] m = "non increasing time length" -> 4
      [] m = "too few strikes" -> 5
      [] m = "non increasing strike spreads" -> 6
      [] m \in { "nStrikes_!=volSpreads.columns()",
                 "nStrikes_!=marketVolCube.columns()" } -> 7
      [] m \in { "nExercise*nlengths!=volSpreads.rows()",
                 "nExercise*nlengths!=marketVolCube.rows()" } -> 8
      [] OTHER -> 0

WrongShape ==
    \/ inp.volSpreads.rows # nExercise * nlengths
    \/ inp.volSpreads.columns # nStrikes

\* fillVolatilityCube has ended: it returned, it raised, or its loop ran
\* into an out-of-bounds access.
FillEnded ==
    \/ Constructed("SwaptionVolatilityCubeBySabr")
    \/ pc = "sabrCalibration" /\ loc.pass = 2
    \/ pc \in { "failed", "undefined" } /\ loc.fn = "fillVolatilityCube"

\* C5: once fillVolatilityCube has ended, every expiry and every tenor of
\* the ATM reference's native grid is found in the dense cube's grid, ATM
\* values below the first and above the last sparse grid value included.
C5_AtmGridInDenseGrid ==
    FillEnded =>
        /\ \A e \in Range(obj.atmExerciseTimes) :
               binary_search(obj.volCubeAtmCalibrated_.expiries, e)
        /\ \A l \in Range(obj.atmTimeLengths) :
               binary_search(obj.volCubeAtmCalibrated_.lengths, l)

\* The SABR parameters of every cell of Cube c, fitted from the volatilities
\* stored in c.
CalibratedLayers(c) ==
    LET fit(j, k) ==
            LET atmForward == atmStrike(c.expiries[j], c.lengths[k])
            IN  SabrFit([i \in 1..nStrikes |-> atmForward + inp.strikeSpreads[i]],
                        [i \in 1..nStrikes |-> c.points[i][j][k]],
                        c.expiries[j], atmForward)
        layer(f(_, _)) == [j \in 1..Len(c.expiries) |-> [k \in 1..Len(c.lengths) |-> f(j, k)]]
        alpha(j, k) == fit(j, k).alpha
        beta(j, k) == fit(j, k).beta
        nu(j, k) == fit(j, k).nu
        rho(j, k) == fit(j, k).rho
        forward(j, k) == atmStrike(c.expiries[j], c.lengths[k])
    IN  << layer(alpha), layer(beta), layer(nu), layer(rho), layer(forward) >>

\* C6: in the constructed SwaptionVolatilityCubeBySabr, denseParameters_ is
\* laid over the grid of the dense cube volCubeAtmCalibrated_ and holds, for
\* every cell of that grid, the parameters fitted from the volatilities the
\* dense cube stores there.
C6_DenseParametersFromDenseCube ==
    Constructed("SwaptionVolatilityCubeBySabr") =>
        /\ obj.denseParameters_.expiries = obj.volCubeAtmCalibrated_.expiries
        /\ obj.denseParameters_.lengths = obj.volCubeAtmCalibrated_.lengths
        /\ obj.denseParameters_.points = CalibratedLayers(obj.volCubeAtmCalibrated_)

\* What a query returns when no other caller is in the object.
ResultAlone(f) ==
    IF inp.variant = "SwaptionVolatilityCubeBySabr"
    THEN LET section == smileSectionOf(f.start, f.length, obj.denseParameters_).section
         IN  IF f.op = "smileSection" THEN section
             ELSE SmileVolatility(section, f.strike)
    ELSE LET strikes == [i \in 1..nStrikes |-> f.atmForward + inp.strikeSpreads[i]]
             volatilities ==
                 [i \in 1..nStrikes |->
                     f.atmVol + BilinearValue(obj.volSpreadsInterpolator_[i],
                                              f.length, f.start).value]
             fit == SabrFit(strikes, volatilities, f.start, f.atmForward)
         IN  IF f.op = "smileSection" THEN <<fit.alpha, fit.beta, fit.nu, fit.rho>>
             ELSE LinearValue(strikes, volatilities,
                              LinearSlopes(strikes, volatilities), f.strike)

\* C7: whatever the interleaving of two callers' queries on a constructed
\* cube, each query returns what it returns when it runs alone.
C7_QueriesReturnAsAlone ==
    \A c \in DOMAIN callers :
        callers[c].pc = "returned" => callers[c].result = ResultAlone(callers[c])

\* C8: once its checks have run, either constructor has raised an error for
\* every input violating one of the eight validation conditions, and the
\* error is that of the first violated condition in the list's order, the
\* same for both variants.
C8_ConstructorsRejectAlike ==
    (pc # "start" /\ FirstViolation(inp) # 0) =>
        /\ pc = "failed"
        /\ Category(err) = FirstViolation(inp)

C8_Witness ==
    /\ pc = "failed"
    /\ inp.variant = "SwaptionVolatilityCubeBySabr"
    /\ FirstViolation(inp) = 7
    /\ inp.volSpreads.rows # nExercise * nlengths
    /\ err = "nStrikes_!=marketVolCube.columns()"

\* C9: a constructor given a spread matrix of the wrong row or column count
\* has, once past its checks, failed with an error, having read no element
\* of the spread matrix, called the ATM reference for nothing and run no
\* calibration, and no member of the object has been filled.
C9_WrongShapeFailsFirst ==
    (pc # "start" /\ WrongShape) =>
        /\ pc = "failed"
        /\ err # ""
        /\ FirstViolation(inp) \in { 7, 8 } => Category(err) \in { 7, 8 }
        /\ cnt = NoCount
        /\ obj = NoObject

C9_Witness ==
    /\ pc = "failed"
    /\ inp.variant = "SwaptionVolatilityCube"
    /\ FirstViolation(inp) = 8
    /\ inp.volSpreads.rows < nExercise * nlengths
    /\ err = "nExercise*nlengths!=volSpreads.rows()"

\* A step of sabrCalibration that fits a node, and whether it raised the
\* accuracy error.
NodeFitted == pc = "sabrCalibration" /\ cnt'.fits = cnt.fits + 1
AccuracyErrorRaised == pc' = "failed" /\ err' = AccuracyNotReached

\* A step in which caller c's smileSection call ends.
SectionBuilt(c) ==
    /\ callers[c].pc = "idle"
    /\ callers'[c].op = "smileSection"
    /\ callers'[c].pc \in { "returned", "error" }

\* C10 (as stated): a fit, in sabrCalibration or in the forward-taking
\* VarianceSmileSection constructor, raises the accuracy error exactly when
\* its interpolation error is above 1e-4, and succeeds at an error of 1e-4.
C10_FailsOnlyAboveTolerance ==
    [][ /\ NodeFitted => (AccuracyErrorRaised <=> loc'.error > Tolerance)
        /\ \A c \in DOMAIN callers :
               SectionBuilt(c) =>
                   (callers'[c].pc = "error" <=> callers'[c].error > Tolerance) ]_vars

\* C10 (amended): a fit, in sabrCalibration or in the forward-taking
\* VarianceSmileSection constructor, raises the accuracy error exactly when
\* its interpolation error is 1e-4 or more, succeeds for every error below
\* 1e-4, and stores or returns parameters only of fits below the tolerance.
C10_FailsFromToleranceOn ==
    [][ /\ NodeFitted =>
               /\ AccuracyErrorRaised <=> loc'.error >= Tolerance
               /\ ~AccuracyErrorRaised =>
                      /\ pc' = "sabrCalibration"
                      /\ loc'.error < Tolerance
                      /\ loc'.alphas # loc.alphas \/ loc'.forwards # loc.forwards
        /\ \A c \in DOMAIN callers :
               SectionBuilt(c) =>
                   /\ callers'[c].pc = "error" <=> callers'[c].error >= Tolerance
                   /\ callers'[c].pc = "returned" => callers'[c].error < Tolerance ]_vars

C10_Witness ==
    /\ pc = "failed"
    /\ err = AccuracyNotReached
    /\ loc.fn = "sabrCalibration"
    /\ loc.error = Tolerance

\* The value at strike of the smile caller c was returned.
SmileValue(c, strike) ==
    IF inp.variant = "SwaptionVolatilityCubeBySabr"
    THEN SmileVolatility(callers[c].result, strike)
    ELSE LinearValue(obj.localStrikes_, obj.localSmile_, callers[c].s, strike)

\* Caller c has been returned the smile of (start, length).
HoldsSmile(c) ==
    /\ callers[c].pc = "returned"
    /\ callers[c].op = IF inp.variant = "SwaptionVolatilityCubeBySabr"
                       THEN "smileSection" ELSE "smile"

ZeroSpread == inp.volSpreads.kind = "zero" /\ 0 \in Range(inp.strikeSpreads)

\* The frame's (start, length) is a node of the constructor's grid.
AtNode(f) ==
    /\ f.start \in Range(inp.exerciseTimes)
    /\ f.length \in Range(inp.timeLengths)

\* The one caller that has queried the object so far, the other being idle.
OnlyCaller(c) == \A d \in DOMAIN callers : d # c => callers[d].pc = "idle"

\* C12: a volatility query made alone at a grid node (e, t) returns the ATM
\* reference's volatility when the spreads are all zero and the strike is
\* atmStrike(e, t), for either variant; and for the spread-interpolation
\* variant it returns atmVol + volSpread[e, t, i] at the strike
\* atmForward + strikeSpread[i].
C12_NodePassthrough ==
    \A c \in DOMAIN callers :
        LET f == callers[c]
            atmForward == atmStrike(f.start, f.length)
            atmVol == atmVolatility(f.start, f.length, atmForward)
            j == Position(inp.exerciseTimes, f.start) - 1
            k == Position(inp.timeLengths, f.length) - 1
        IN  ( /\ pc = "done" /\ OnlyCaller(c)
              /\ f.pc = "returned" /\ f.op = "volatilityImpl" /\ AtNode(f) )
            => /\ (ZeroSpread /\ f.strike = atmForward) => f.result = atmVol
               /\ inp.variant = "SwaptionVolatilityCube" =>
                      \A i \in 1..nStrikes :
                          f.strike = atmForward + inp.strikeSpreads[i] =>
                              f.result = atmVol + SpreadElement(inp.volSpreads,
                                                                j * nlengths + k, i - 1)

\* C13: Cube::operator() called at a grid node (expiries[i], lengths[j])
\* after updateInterpolators returns, for every layer k, the stored
\* points[k][i][j], whatever the shape of the grid.
C13_NodeValueIsStoredValue ==
    (last.op = "operator()" /\ Regular(cube)) =>
        /\ last.outcome = "ok"
        /\ \A k \in 1..cube.nLayers :
               last.point[k] = cube.points[k][Position(cube.expiries, last.expiry)]
                                             [Position(cube.lengths, last.length)]

\* The four Cubes of the object.
Cubes(o) ==
    <<o.marketVolCube_, o.sparseParameters_, o.volCubeAtmCalibrated_, o.denseParameters_>>

\* C14: no step of sabrCalibration, and none that raises the accuracy error
\* in particular, modifies a Cube of the object: when the error is raised
\* in the first pass sparseParameters_ and denseParameters_ are still
\* unassigned, and in the second pass denseParameters_ is.
C14_FailedCalibrationWritesNoCube ==
    [][ (pc = "sabrCalibration" /\ pc' \in { "sabrCalibration", "failed" }) =>
            /\ Cubes(obj') = Cubes(obj)
            /\ pc' = "failed" =>
                   /\ err' = AccuracyNotReached
                   /\ obj'.denseParameters_ = NullCube
                   /\ loc'.pass = 1 => obj'.sparseParameters_ = NullCube ]_vars

C14_Witness ==
    /\ pc = "failed" /\ err = AccuracyNotReached
    /\ loc.fn = "sabrCalibration" /\ loc.pass = 2
    /\ loc.j > 0
    /\ loc.alphas[1][1] # 0

\* The arguments of Cube::Cube are grids of at least two strictly
\* increasing lines.
ValidGrids(a) ==
    /\ Len(a.expiries) >= 2 /\ StrictlyIncreasing(a.expiries)
    /\ Len(a.lengths) >= 2 /\ StrictlyIncreasing(a.lengths)

\* C15: Cube::Cube raises an error when a grid has fewer than 2 lines or is
\* not strictly increasing; otherwise it returns a Cube of nLayers layers
\* over the grids, every element zero, with one interpolator per layer.
C15_CubeCtorValidates ==
    last.op = "Cube" =>
        IF ValidGrids(last.pre)
        THEN /\ last.outcome = "ok"
             /\ cube.expiries = last.pre.expiries /\ cube.lengths = last.pre.lengths
             /\ cube.nLayers = last.pre.nLayers
             /\ cube.points = [k \in 1..cube.nLayers |->
                                  Matrix(Len(cube.expiries), Len(cube.lengths), 0)]
             /\ Len(cube.interpolators) = cube.nLayers
        ELSE last.outcome = "error" /\ cube = NullCube

\* C19: the interpolators of a Cube have extrapolation enabled exactly when
\* the Cube's extrapolation flag is set, after construction, copy,
\* assignment and updateInterpolators.
C19_ExtrapolationFollowsFlag ==
    (cube # NullCube /\ last.op \in { "Cube", "Cube(const Cube&)", "operator=",
                                      "updateInterpolators" }) =>
        \A k \in 1..Len(cube.interpolators) :
            cube.interpolators[k].extrapolation <=> cube.extrapolation

\* C16: a setElement, setLayer or setPoint that raises an error leaves the
\* Cube (grids, layers, interpolators) as it was; setElement raises for a
\* layer, row or column index out of bounds and setLayer for a layer index
\* out of bounds or a matrix not of the grid's shape; a setElement that
\* returns has changed the one addressed element and nothing else, the
\* interpolators included.
C16_MutatorsFailAtomically ==
    /\ (last.op \in { "setElement", "setLayer", "setPoint" } /\ last.outcome = "error")
           => cube = last.pre
    /\ last.op = "setElement" =>
           /\ ( \/ ~(last.point[1] < last.pre.nLayers)
                \/ ~(last.expiry < Len(last.pre.expiries))
                \/ ~(last.length < Len(last.pre.lengths)) ) => last.outcome = "error"
           /\ last.outcome = "ok" =>
                  cube = [last.pre EXCEPT
                             !.points[last.point[1] + 1][last.expiry + 1][last.length + 1]
                                 = last.point[2]]
    /\ last.op = "setLayer" =>
           /\ ~(last.point[1] < last.pre.nLayers) => last.outcome = "error"
           /\ last.outcome = "ok" =>
                  /\ HasGridShape(cube, last.point[1] + 1)
                  /\ cube.interpolators = last.pre.interpolators

C16_Witness ==
    /\ last.op = "setLayer" /\ last.outcome = "error"
    /\ last.msg = "Cube::setLayer: incompatible size 1"
    /\ last.pre.points # [k \in 1..last.pre.nLayers |->
                             Matrix(Len(last.pre.expiries), Len(last.pre.lengths), 0)]

\* The value at the caller's strike that the smile gave when it was returned
\* to caller c: the spread-interpolation variant's frame records it, the
\* SABR variant's section is that of the dense parameters.
ValueOnReturn(c) ==
    IF inp.variant = "SwaptionVolatilityCubeBySabr"
    THEN SmileVolatility(ResultAlone(callers[c]), callers[c].strike)
    ELSE callers[c].result

\* C17: a returned smile gives at the caller's strike the value it gave on
\* return, also once a query that began after that return, on another
\* (expiry, tenor), is running or has returned.
C17_ReturnedSmileIsImmutable ==
    \A c \in Callers, d \in Callers :
        ( /\ HoldsSmile(c)
          /\ c \in callers[d].after
          /\ <<callers[d].start, callers[d].length>>
                 # <<callers[c].start, callers[c].length>> )
        => SmileValue(c, callers[c].strike) = ValueOnReturn(c)

\* C18: when fillVolatilityCube has returned, no element of any layer of the
\* dense cube is the zero that expandLayers fills new cells with: every cell
\* holds a market volatility or atmVol + interpolated spread, which are
\* not zero.
C18_NoDenseCellLeftAtZero ==
    FillEnded =>
        \A k \in 1..Len(obj.volCubeAtmCalibrated_.points) :
            \A i \in 1..rows(obj.volCubeAtmCalibrated_.points[k]) :
                \A j \in 1..columns(obj.volCubeAtmCalibrated_.points[k]) :
                    obj.volCubeAtmCalibrated_.points[k][i][j] # 0

\* The target lies within [grid[lo], grid[lo + 1]], lo a 0-based index.
Encloses(grid, lo, x) ==
    /\ 0 <= lo /\ lo + 1 < Len(grid)
    /\ grid[lo + 1] <= x /\ x <= grid[lo + 2]

\* The ATM cell the loop of fillVolatilityCube hands to
\* spreadVolInterpolation in its next pass, if it hands one.
Interpolating ==
    /\ pc = "fillLoop" /\ loc.j < Len(obj.atmExerciseTimes)
    /\ \/ ~binary_search(loc.exerciseTimes, obj.atmExerciseTimes[loc.j + 1])
       \/ ~binary_search(loc.timeLengths, obj.atmTimeLengths[loc.k + 1])

\* C20: when spreadVolInterpolation is called for an ATM cell (e, t) within
\* the range of the sparse grid, the index it chooses on each axis has
\* grid[lo] <= target <= grid[lo + 1].
C20_BracketsEncloseTarget ==
    Interpolating =>
        LET exerciseTimes == obj.sparseParameters_.expiries
            timeLengths == obj.sparseParameters_.lengths
            e == obj.atmExerciseTimes[loc.j + 1]
            t == obj.atmTimeLengths[loc.k + 1]
        IN  ( /\ exerciseTimes[1] <= e /\ e <= exerciseTimes[Len(exerciseTimes)]
              /\ timeLengths[1] <= t /\ t <= timeLengths[Len(timeLengths)] )
            => /\ Encloses(exerciseTimes, previousIndex(exerciseTimes, e), e)
               /\ Encloses(timeLengths, previousIndex(timeLengths, t), t)

\* C21: an object of the spread-interpolation variant has run no SABR fit,
\* and none of its queries (smile, smileSection, volatilityImpl) has ended
\* with the accuracy error of a calibration.
C21_SpreadVariantNeverCalibrates ==
    inp.variant = "SwaptionVolatilityCube" =>
        /\ cnt.fits = 0
        /\ \A c \in DOMAIN callers : callers[c].pc # "error"

\* Every layer's interpolator of the Cube is one built on the Cube's present
\* grids and the layer's present points.
Fresh(c) ==
    /\ c.nLayers <= Len(c.interpolators)
    /\ \A k \in 1..c.nLayers :
           /\ c.interpolators[k].x = c.expiries
           /\ c.interpolators[k].y = c.lengths
           /\ c.interpolators[k].z = c.points[k]

\* C22: in SwaptionVolatilityCubeBySabr, wherever operator() is applied to a
\* Cube (createSparseSmiles on a copy of sparseParameters_, smileSection and
\* volatilityImpl on a copy of denseParameters_), the member has had its
\* interpolators rebuilt since its last mutation and the copy that is queried
\* has interpolators built on the points and grids it stores.
C22_QueriedCubesAreFresh ==
    inp.variant = "SwaptionVolatilityCubeBySabr" =>
        /\ pc = "fillVolatilityCube" =>
               /\ Fresh(obj.sparseParameters_)
               /\ Fresh(CubeCopy(obj.sparseParameters_))
        /\ pc = "done" =>
               /\ Fresh(obj.denseParameters_)
               /\ Fresh(CubeCopy(obj.denseParameters_))

C22_Witness ==
    /\ Constructed("SwaptionVolatilityCubeBySabr")
    /\ \E c \in DOMAIN callers :
           /\ callers[c].pc = "returned" /\ callers[c].op = "smileSection"
           /\ callers[c].result.alpha # 0
    /\ obj.sparseSmiles_ # <<>>

\* The four bracketing smiles are flat in the strike.
FlatSmiles == \A i \in 1..2, j \in 1..2 : inp.smiles[i][j].nu = 0

C24_BracketIndicesInBounds ==
    Interpolating =>
        LET exerciseTimes == obj.sparseParameters_.expiries
            timeLengths == obj.sparseParameters_.lengths
            i == previousIndex(exerciseTimes, obj.atmExerciseTimes[loc.j + 1])
            j == previousIndex(timeLengths, obj.atmTimeLengths[loc.k + 1])
        IN  /\ 0 <= i /\ i + 1 < Len(exerciseTimes) /\ i + 1 < Len(obj.sparseSmiles_)
            /\ 0 <= j /\ j + 1 < Len(timeLengths)
            /\ \A a \in 1..Len(obj.sparseSmiles_) : j + 1 < Len(obj.sparseSmiles_[a])

\* fillVolatilityCube is in its loop or has returned.
Filling ==
    /\ inp.variant = "SwaptionVolatilityCubeBySabr"
    /\ \/ pc = "fillLoop"
       \/ pc = "sabrCalibration" /\ loc.pass = 2
       \/ pc = "done"

\* C25: while fillVolatilityCube runs and after it has returned, the dense
\* cube holds, for every node (e, t) of the sparse grid and every strike
\* layer, at the row of e and the column of t, the volatility that
\* marketVolCube_ holds at that node.
C25_MarketValuesKept ==
    Filling =>
        LET market == obj.marketVolCube_
            dense == obj.volCubeAtmCalibrated_
        IN  \A j \in 1..Len(market.expiries), k \in 1..Len(market.lengths) :
                /\ market.expiries[j] \in Range(dense.expiries)
                /\ market.lengths[k] \in Range(dense.lengths)
                /\ \A i \in 1..market.nLayers :
                       dense.points[i][Position(dense.expiries, market.expiries[j])]
                                      [Position(dense.lengths, market.lengths[k])]
                           = market.points[i][j][k]

C25_Witness ==
    /\ Filling /\ pc # "fillLoop"
    /\ Len(obj.volCubeAtmCalibrated_.expiries) > Len(obj.marketVolCube_.expiries)
    /\ Len(obj.volCubeAtmCalibrated_.lengths) > Len(obj.marketVolCube_.lengths)
    /\ inp.volSpreads.kind = "skew"

====
